---- MODULE Spec2Model ----
(***************************************************************************)
(* One run of getcal.py: argument parsing, OAuth credential acquisition,   *)
(* calendar query, summary output and the clipboard fallback chain.        *)
(* External collaborators (google-auth, the calendar API, textutil,        *)
(* pbcopy) are modelled by their possible outcomes.                        *)
(***************************************************************************)
EXTENDS Integers, Sequences, FiniteSets, TLC

VARIABLES
    args,               \* parsed command line (argparse namespace + early-exit option)
    stored,             \* content of token.json when the run started
    TOKEN_FILE,         \* current content of token.json
    CREDENTIALS_FILE,   \* TRUE iff credentials.json exists
    pc,                 \* position of main
    creds,              \* value returned by get_credentials
    calls,              \* external effects in program order
    refresh,            \* outcome of creds.refresh(Request())
    flow,               \* outcome of the InstalledAppFlow
    secret_checked,     \* ensure_credentials_file was called
    target_day,         \* result of parse_date
    events,             \* len(events)
    conv,               \* outcome of textutil
    rtf_write,          \* outcome of pbcopy -Prefer rtf
    plain_write,        \* outcome of pbcopy (plain text)
    clipboard,          \* what the clipboard holds
    stdout,             \* lines on standard output
    stderr,             \* lines on the error stream
    exit_code,          \* process exit status (-1 while running)
    error               \* kind of the terminating error

vars == <<args, stored, TOKEN_FILE, CREDENTIALS_FILE, pc, creds, calls, refresh,
          flow, secret_checked, target_day, events, conv, rtf_write,
          plain_write, clipboard, stdout, stderr, exit_code, error>>

\* largest number of events the calendar query returns in the model
MaxEvents == 2

Contains(s, x) == \E i \in 1..Len(s) : s[i] = x

----------------------------------------------------------------------------
(* Credentials                                                             *)

\* creds = None / token.json absent
NoCreds == [exists |-> FALSE, token |-> FALSE, expired |-> FALSE,
            refresh_token |-> FALSE, origin |-> "none"]

\* what Credentials.from_authorized_user_file can load from token.json
StoredCredentials ==
    [exists : {TRUE}, token : BOOLEAN, expired : BOOLEAN,
     refresh_token : BOOLEAN, origin : {"stored"}]

\* creds.valid: an access token is present and it is not expired
valid_inverted(c) == c.token /\ c.expired
valid(c) == c.token /\ ~c.expired

\* creds.refresh(Request()) on success: new access token, new expiry
refreshed(c) == [c EXCEPT !.token = TRUE, !.expired = FALSE, !.origin = "refreshed"]

\* flow.run_local_server(port=0) on success
authorized == [exists |-> TRUE, token |-> TRUE, expired |-> FALSE,
               refresh_token |-> TRUE, origin |-> "flow"]

\* ensure_credentials_file: raises SystemExit when credentials.json is absent
ensure_credentials_file_no_check(secret_exists) == "none"
ensure_credentials_file(secret_exists) ==
    IF ~secret_exists THEN "MissingClientSecret" ELSE "none"

GetCredsResult(c, file, cs, rf, fl, chk, raise) ==
    [creds |-> c, file |-> file, calls |-> cs, refresh |-> rf, flow |-> fl,
     secret_checked |-> chk, raise |-> raise]

\* the interactive tail of get_credentials (lines 94-98)
authorize(file, secret_exists, flow_ok) ==
    IF ensure_credentials_file(secret_exists) # "none"
    THEN GetCredsResult(NoCreds, file, <<>>, "none", "none", TRUE,
                        ensure_credentials_file(secret_exists))
    ELSE IF ~flow_ok
    THEN GetCredsResult(NoCreds, file, <<"flow">>, "none", "failed", TRUE, "FlowError")
    ELSE GetCredsResult(authorized, authorized, <<"flow", "write_token">>,
                        "none", "ok", TRUE, "none")

\* get_credentials with the consent check moved ahead of the refresh branch
get_credentials_consent_first(interactive, file, secret_exists, refresh_ok, flow_ok) ==
    LET c == file IN
    IF c.exists /\ valid(c)
    THEN GetCredsResult(c, file, <<>>, "none", "none", FALSE, "none")
    ELSE IF ~interactive
    THEN GetCredsResult(NoCreds, file, <<>>, "none", "none", FALSE, "ConsentRequired")
    ELSE IF c.exists /\ c.expired /\ c.refresh_token
    THEN IF refresh_ok
         THEN GetCredsResult(refreshed(c), refreshed(c), <<"refresh", "write_token">>,
                             "ok", "none", FALSE, "none")
         ELSE GetCredsResult(NoCreds, file, <<"refresh">>, "failed", "none", FALSE,
                             "RefreshError")
    ELSE authorize(file, secret_exists, flow_ok)

\* get_credentials with the client-secret check ahead of the consent check
get_credentials_secret_first(interactive, file, secret_exists, refresh_ok, flow_ok) ==
    LET c == file IN
    IF c.exists /\ valid(c)
    THEN GetCredsResult(c, file, <<>>, "none", "none", FALSE, "none")
    ELSE IF c.exists /\ c.expired /\ c.refresh_token
    THEN IF refresh_ok
         THEN GetCredsResult(refreshed(c), refreshed(c), <<"refresh", "write_token">>,
                             "ok", "none", FALSE, "none")
         ELSE GetCredsResult(NoCreds, file, <<"refresh">>, "failed", "none", FALSE,
                             "RefreshError")
    ELSE IF ensure_credentials_file(secret_exists) # "none"
    THEN GetCredsResult(NoCreds, file, <<>>, "none", "none", TRUE,
                        ensure_credentials_file(secret_exists))
    ELSE IF ~interactive
    THEN GetCredsResult(NoCreds, file, <<>>, "none", "none", TRUE, "ConsentRequired")
    ELSE authorize(file, secret_exists, flow_ok)

\* get_credentials(interactive): the returned credential, the new content of
\* token.json, the external effects and the exception raised, if any.
\* refresh_ok / flow_ok are the outcomes of the two network exchanges.
get_credentials(interactive, file, secret_exists, refresh_ok, flow_ok) ==
    LET c == file IN
    IF c.exists /\ valid(c)
    THEN GetCredsResult(c, file, <<>>, "none", "none", FALSE, "none")
    ELSE IF c.exists /\ c.expired /\ c.refresh_token
    THEN IF refresh_ok
         THEN GetCredsResult(refreshed(c), refreshed(c), <<"refresh", "write_token">>,
                             "ok", "none", FALSE, "none")
         \* creds.refresh raises google.auth.exceptions.RefreshError; nothing
         \* in get_credentials or main catches it
         ELSE GetCredsResult(NoCreds, file, <<"refresh">>, "failed", "none", FALSE,
                             "RefreshError")
    ELSE IF ~interactive
    THEN GetCredsResult(NoCreds, file, <<>>, "none", "none", FALSE, "ConsentRequired")
    ELSE authorize(file, secret_exists, flow_ok)

----------------------------------------------------------------------------
(* Dates                                                                   *)

NoDate == [kind |-> "None", y |-> 0, m |-> 0, d |-> 0]

\* values of args.date: omitted, the empty string, YYYY-MM-DD texts, other text
DateArgs ==
    { NoDate,
      [kind |-> "empty", y |-> 0, m |-> 0, d |-> 0],
      [kind |-> "text", y |-> 0, m |-> 0, d |-> 0] }
    \cup [kind : {"ymd"}, y : {2023, 2024}, m : {2, 13}, d : {29, 30}]

IsLeap(y) == (y % 4 = 0 /\ y % 100 # 0) \/ y % 400 = 0

DaysInMonth(y, m) ==
    IF m = 2 THEN (IF IsLeap(y) THEN 29 ELSE 28)
    ELSE IF m \in {4, 6, 9, 11} THEN 30 ELSE 31

\* dt.date.fromisoformat succeeds
fromisoformat_ok(a) ==
    /\ a.kind = "ymd"
    /\ a.m \in 1..12
    /\ a.d \in 1..DaysInMonth(a.y, a.m)

Today == [kind |-> "today", y |-> 0, m |-> 0, d |-> 0]

\* parse_date: [day, raise]
parse_date(date_str) ==
    IF date_str.kind \in {"None", "empty"}
    THEN [day |-> Today, raise |-> "none"]
    ELSE IF fromisoformat_ok(date_str)
    THEN [day |-> date_str, raise |-> "none"]
    ELSE [day |-> NoDate, raise |-> "InvalidDate"]

----------------------------------------------------------------------------
(* Clipboard                                                               *)

ProcessOutcomes == {"ok", "absent", "failed"}

\* convert_html_to_rtf: FileNotFoundError becomes SystemExit,
\* CalledProcessError (check=True) propagates
convert_html_to_rtf(textutil) ==
    CASE textutil = "absent" -> "SystemExit"
      [] textutil = "failed" -> "CalledProcessError"
      [] OTHER -> "none"

\* copy_plain_text with the CalledProcessError handler swallowing the error
copy_plain_text_swallow(pbcopy) ==
    CASE pbcopy = "absent" -> "PbcopyNotFound"
      [] OTHER -> "none"

\* copy_plain_text: both failures become SystemExit
copy_plain_text(pbcopy) ==
    CASE pbcopy = "absent" -> "PbcopyNotFound"
      [] pbcopy = "failed" -> "ClipboardWriteFailure"
      [] OTHER -> "none"

ClipResult(cv, rw, pw, clip, err, raise) ==
    [conv |-> cv, rtf_write |-> rw, plain_write |-> pw, clipboard |-> clip,
     stderr |-> err, raise |-> raise]

\* the two except branches of copy_to_clipboard: notice, then copy_plain_text
plain_fallback(textutil, notice, pbcopy) ==
    ClipResult(textutil, "none", pbcopy,
               IF pbcopy = "ok" THEN "plain" ELSE "unchanged",
               <<notice>>, copy_plain_text(pbcopy))

\* copy_to_clipboard without the "except SystemExit" branch
copy_to_clipboard_uncaught(textutil, pbcopy) ==
    CASE convert_html_to_rtf(textutil) = "SystemExit" ->
            ClipResult(textutil, "none", "none", "unchanged", <<>>, "TextutilNotFound")
      [] convert_html_to_rtf(textutil) = "CalledProcessError" ->
            plain_fallback(textutil, "convert_failed_notice", pbcopy)
      [] OTHER ->
            ClipResult(textutil, pbcopy, "none",
                       IF pbcopy = "ok" THEN "rtf" ELSE "unchanged", <<>>,
                       CASE pbcopy = "absent" -> "PbcopyNotFound"
                         [] pbcopy = "failed" -> "RtfClipboardWriteFailure"
                         [] OTHER -> "none")

\* copy_to_clipboard(plain_text, html_text); textutil and pbcopy are the
\* outcomes of the converter process and of the one pbcopy process the call runs
copy_to_clipboard(textutil, pbcopy) ==
    CASE convert_html_to_rtf(textutil) = "SystemExit" ->
            plain_fallback(textutil, "fallback_notice", pbcopy)
      [] convert_html_to_rtf(textutil) = "CalledProcessError" ->
            plain_fallback(textutil, "convert_failed_notice", pbcopy)
      [] OTHER ->
            ClipResult(textutil, pbcopy, "none",
                       IF pbcopy = "ok" THEN "rtf" ELSE "unchanged", <<>>,
                       CASE pbcopy = "absent" -> "PbcopyNotFound"
                         [] pbcopy = "failed" -> "RtfClipboardWriteFailure"
                         [] OTHER -> "none")

----------------------------------------------------------------------------
(* main                                                                    *)

\* the statements of main in a different order: date parsed first
main_steps_date_first ==
    <<"parse_date", "get_credentials", "build_calendar_service",
      "fetch_events_for_day", "report", "copy_to_clipboard", "copied">>

\* the statements of main after parse_args, in program order
main_steps ==
    <<"get_credentials", "build_calendar_service", "parse_date",
      "fetch_events_for_day", "report", "copy_to_clipboard", "copied">>

StepIndex(s) == CHOOSE i \in 1..Len(main_steps) : main_steps[i] = s

\* the statement that follows s
After(s) == main_steps[StepIndex(s) + 1]

\* lines printed at the summary step when --dry-run drops the summary
report_output_no_summary(dry_run) ==
    IF dry_run THEN <<"plain_output">> ELSE <<"Fetched">>

\* lines 259-262: the summary line, and the plain text under --dry-run
report_output(dry_run) ==
    IF dry_run THEN <<"Fetched", "plain_output">> ELSE <<"Fetched">>

\* process termination: normal return, SystemExit or uncaught exception
Exit(code, kind) ==
    /\ pc' = "exit"
    /\ exit_code' = code
    /\ error' = kind

ArgSpace ==
    [early : {"none", "version", "help", "usage_error"},
     non_interactive : BOOLEAN, dry_run : BOOLEAN, date : DateArgs]

Init ==
    /\ args \in ArgSpace
    /\ stored \in StoredCredentials \cup {NoCreds}
    /\ TOKEN_FILE = stored
    /\ CREDENTIALS_FILE \in BOOLEAN
    /\ pc = "parse_args"
    /\ creds = NoCreds
    /\ calls = <<>>
    /\ refresh = "none"
    /\ flow = "none"
    /\ secret_checked = FALSE
    /\ target_day = NoDate
    /\ events = 0
    /\ conv = "none"
    /\ rtf_write = "none"
    /\ plain_write = "none"
    /\ clipboard = "unchanged"
    /\ stdout = <<>>
    /\ stderr = <<>>
    /\ exit_code = -1
    /\ error = "none"

\* parser.parse_args(argv): --version and --help print and exit 0,
\* a usage error exits 2
ParseArgs ==
    /\ pc = "parse_args"
    /\ CASE args.early = "version" ->
              /\ stdout' = Append(stdout, "version")
              /\ Exit(0, "none")
              /\ UNCHANGED stderr
         [] args.early = "help" ->
              /\ stdout' = Append(stdout, "help")
              /\ Exit(0, "none")
              /\ UNCHANGED stderr
         [] args.early = "usage_error" ->
              /\ stderr' = Append(stderr, "usage_error")
              /\ Exit(2, "UsageError")
              /\ UNCHANGED stdout
         [] OTHER ->
              /\ pc' = main_steps[1]
              /\ UNCHANGED <<stdout, stderr, exit_code, error>>
    /\ UNCHANGED <<args, stored, TOKEN_FILE, CREDENTIALS_FILE, creds, calls,
                   refresh, flow, secret_checked, target_day, events, conv,
                   rtf_write, plain_write, clipboard>>

\* lines 247-251: get_credentials; a SystemExit is printed and re-raised,
\* any other exception leaves main with a traceback
GetCredentials ==
    /\ pc = "get_credentials"
    /\ \E refresh_ok \in BOOLEAN, flow_ok \in BOOLEAN :
         LET r == get_credentials(~args.non_interactive, TOKEN_FILE,
                                  CREDENTIALS_FILE, refresh_ok, flow_ok)
         IN /\ creds' = r.creds
            /\ TOKEN_FILE' = r.file
            /\ calls' = calls \o r.calls
            /\ refresh' = r.refresh
            /\ flow' = r.flow
            /\ secret_checked' = r.secret_checked
            /\ CASE r.raise = "none" ->
                      /\ pc' = After("get_credentials")
                      /\ UNCHANGED <<stderr, exit_code, error>>
                 [] r.raise \in {"ConsentRequired", "MissingClientSecret"} ->
                      /\ stderr' = stderr \o <<r.raise, r.raise>>
                      /\ Exit(1, r.raise)
                 [] OTHER ->
                      /\ stderr' = Append(stderr, "Traceback")
                      /\ Exit(1, r.raise)
    /\ UNCHANGED <<args, stored, CREDENTIALS_FILE, target_day, events, conv,
                   rtf_write, plain_write, clipboard, stdout>>

\* line 253: build("calendar", "v3", ...) returns the service or raises
BuildCalendarService ==
    /\ pc = "build_calendar_service"
    /\ \E ok \in BOOLEAN :
         IF ok
         THEN /\ pc' = After("build_calendar_service")
              /\ UNCHANGED <<stderr, exit_code, error>>
         ELSE /\ stderr' = Append(stderr, "Traceback")
              /\ Exit(1, "BuildError")
    /\ UNCHANGED <<args, stored, TOKEN_FILE, CREDENTIALS_FILE, creds, calls,
                   refresh, flow, secret_checked, target_day, events, conv,
                   rtf_write, plain_write, clipboard, stdout>>

\* line 254: target_day = parse_date(args.date)
ParseDate ==
    /\ pc = "parse_date"
    /\ LET r == parse_date(args.date)
       IN IF r.raise = "none"
          THEN /\ target_day' = r.day
               /\ pc' = After("parse_date")
               /\ UNCHANGED <<stderr, exit_code, error>>
          ELSE /\ stderr' = Append(stderr, r.raise)
               /\ Exit(1, r.raise)
               /\ UNCHANGED target_day
    /\ UNCHANGED <<args, stored, TOKEN_FILE, CREDENTIALS_FILE, creds, calls,
                   refresh, flow, secret_checked, events, conv, rtf_write,
                   plain_write, clipboard, stdout>>

\* line 255: one events().list(...).execute() call
FetchEvents ==
    /\ pc = "fetch_events_for_day"
    /\ calls' = Append(calls, "query")
    /\ \/ \E n \in 0..MaxEvents :
            /\ events' = n
            /\ pc' = After("fetch_events_for_day")
            /\ UNCHANGED <<stderr, exit_code, error>>
       \/ /\ stderr' = Append(stderr, "Traceback")
          /\ Exit(1, "ProviderQueryFailure")
          /\ UNCHANGED events
    /\ UNCHANGED <<args, stored, TOKEN_FILE, CREDENTIALS_FILE, creds, refresh,
                   flow, secret_checked, target_day, conv, rtf_write,
                   plain_write, clipboard, stdout>>

\* lines 256-262: format, print the summary, return under --dry-run
Report ==
    /\ pc = "report"
    /\ stdout' = stdout \o report_output(args.dry_run)
    /\ IF args.dry_run
       THEN Exit(0, "none")
       ELSE /\ pc' = After("report")
            /\ UNCHANGED <<exit_code, error>>
    /\ UNCHANGED <<args, stored, TOKEN_FILE, CREDENTIALS_FILE, creds, calls,
                   refresh, flow, secret_checked, target_day, events, conv,
                   rtf_write, plain_write, clipboard, stderr>>

\* line 264: copy_to_clipboard; its SystemExit is not caught by main
CopyToClipboard ==
    /\ pc = "copy_to_clipboard"
    /\ \E textutil \in ProcessOutcomes, pbcopy \in ProcessOutcomes :
         LET r == copy_to_clipboard(textutil, pbcopy)
         IN /\ conv' = r.conv
            /\ rtf_write' = r.rtf_write
            /\ plain_write' = r.plain_write
            /\ clipboard' = r.clipboard
            /\ calls' = calls \o <<"textutil">>
                          \o (IF r.rtf_write # "none" \/ r.plain_write # "none"
                              THEN <<"pbcopy">> ELSE <<>>)
            /\ IF r.raise = "none"
               THEN /\ stderr' = stderr \o r.stderr
                    /\ pc' = After("copy_to_clipboard")
                    /\ UNCHANGED <<exit_code, error>>
               ELSE /\ stderr' = stderr \o r.stderr \o <<r.raise>>
                    /\ Exit(1, r.raise)
    /\ UNCHANGED <<args, stored, TOKEN_FILE, CREDENTIALS_FILE, creds, refresh,
                   flow, secret_checked, target_day, events, stdout>>

\* line 265, then main returns
PrintCopied ==
    /\ pc = "copied"
    /\ stdout' = Append(stdout, "Copied")
    /\ Exit(0, "none")
    /\ UNCHANGED <<args, stored, TOKEN_FILE, CREDENTIALS_FILE, creds, calls,
                   refresh, flow, secret_checked, target_day, events, conv,
                   rtf_write, plain_write, clipboard, stderr>>

Next ==
    \/ ParseArgs
    \/ GetCredentials
    \/ BuildCalendarService
    \/ ParseDate
    \/ FetchEvents
    \/ Report
    \/ CopyToClipboard
    \/ PrintCopied

Spec == Init /\ [][Next]_vars

----------------------------------------------------------------------------
(* Properties                                                              *)

\* the stored credential is usable as it is
StoredValid == stored.exists /\ stored.token /\ ~stored.expired

\* the stored credential is expired and holds a refresh token
StoredRefreshable ==
    stored.exists /\ ~StoredValid /\ stored.expired /\ stored.refresh_token

\* a run that passed argument parsing
Started == args.early = "none" /\ pc # "parse_args"

\* get_credentials has returned or raised
AfterGetCredentials == Started /\ pc # "get_credentials"

CredentialErrors ==
    {"ConsentRequired", "MissingClientSecret", "RefreshError", "FlowError"}

\* the date argument is present and is not a calendar date
MalformedDate ==
    \/ args.date.kind = "text"
    \/ /\ args.date.kind = "ymd"
       /\ \/ args.date.m = 13
          \/ args.date.d = 30
          \/ args.date.d = 29 /\ args.date.y = 2023

\* C1: when the refresh exchange of an expired, refreshable credential fails,
\* the run continues into the consent logic (consent-required error when
\* non-interactive, authorization flow when interactive); the refresh failure
\* is not the reported error and the stale credential is not returned.
C1_RefreshFailureFallsThrough ==
    (pc = "exit" /\ StoredRefreshable /\ refresh = "failed") =>
        /\ error # "RefreshError"
        /\ args.non_interactive => error = "ConsentRequired"
        /\ ~args.non_interactive => flow # "none"
        /\ creds # stored

\* C2: when conversion succeeded and the rich-text pbcopy exits non-zero, a
\* degradation notice is on the error stream, the plain-text write was
\* attempted and the run was not aborted by the rich-text failure.
C2_RtfWriteFailureDegrades ==
    (conv = "ok" /\ rtf_write = "failed") =>
        /\ \/ Contains(stderr, "fallback_notice")
           \/ Contains(stderr, "convert_failed_notice")
        /\ plain_write # "none"
        /\ error # "RtfClipboardWriteFailure"

\* C3: a valid stored credential is returned as it is, for both values of
\* interactive: no refresh, no authorization flow, no client-secret check,
\* token.json unchanged.
C3_ValidReturnedAsIs ==
    StoredValid =>
        /\ TOKEN_FILE = stored
        /\ refresh = "none"
        /\ flow = "none"
        /\ ~secret_checked
        /\ ~Contains(calls, "refresh")
        /\ ~Contains(calls, "flow")
        /\ ~Contains(calls, "write_token")
        /\ error \notin CredentialErrors
        /\ AfterGetCredentials => creds = stored

C3_Witness ==
    /\ StoredValid
    /\ pc = "exit"
    /\ exit_code = 0
    /\ args.non_interactive
    /\ ~CREDENTIALS_FILE
    /\ creds = stored

\* C4: an expired credential with a refresh token is refreshed first, also
\* when non-interactive; after a successful refresh token.json holds the
\* refreshed credential, that credential is returned, and neither the
\* authorization flow nor the consent-required error occurs.
C4_RefreshBeforeConsent ==
    (AfterGetCredentials /\ StoredRefreshable) =>
        /\ refresh # "none"
        /\ Len(calls) >= 1 /\ calls[1] = "refresh"
        /\ refresh = "ok" =>
              /\ TOKEN_FILE = [stored EXCEPT !.token = TRUE, !.expired = FALSE,
                                             !.origin = "refreshed"]
              /\ TOKEN_FILE # stored
              /\ creds = TOKEN_FILE
              /\ Len(calls) >= 2 /\ calls[2] = "write_token"
              /\ flow = "none"
              /\ ~Contains(calls, "flow")
              /\ error # "ConsentRequired"
              /\ ~Contains(stderr, "ConsentRequired")

C4_Witness ==
    /\ StoredRefreshable
    /\ args.non_interactive
    /\ refresh = "ok"
    /\ TOKEN_FILE.origin = "refreshed"
    /\ pc = "exit"
    /\ exit_code = 0

\* C5: a non-interactive run without token.json ends with the
\* consent-required error and a non-zero exit, with no external call and no
\* write of token.json; and the consent-required error occurs only when
\* non-interactive with a stored credential neither valid nor refreshable.
C5_ConsentRequired ==
    /\ (AfterGetCredentials /\ args.non_interactive /\ ~stored.exists) =>
          /\ pc = "exit"
          /\ error = "ConsentRequired"
          /\ exit_code > 0
          /\ calls = <<>>
          /\ refresh = "none" /\ flow = "none"
          /\ TOKEN_FILE = stored
          /\ Contains(stderr, "ConsentRequired")
    /\ (error = "ConsentRequired" \/ Contains(stderr, "ConsentRequired")) =>
          /\ args.non_interactive
          /\ ~StoredValid
          /\ ~StoredRefreshable

C5_Witness ==
    /\ pc = "exit"
    /\ error = "ConsentRequired"
    /\ ~stored.exists
    /\ args.non_interactive
    /\ ~CREDENTIALS_FILE

\* C6 as stated: whenever authorization is needed and credentials.json is
\* absent, the run ends with the missing-client-secret error, never with the
\* consent-required error, without the flow and without writing token.json.
C6_MissingSecretAlways ==
    (AfterGetCredentials /\ ~StoredValid /\ ~StoredRefreshable
        /\ ~CREDENTIALS_FILE) =>
        /\ pc = "exit"
        /\ error = "MissingClientSecret"
        /\ exit_code > 0
        /\ flow = "none"
        /\ TOKEN_FILE = stored

\* C6 amended: in an interactive run where authorization is needed and
\* credentials.json is absent, the run ends with the missing-client-secret
\* error and a non-zero exit, never with the consent-required error, without
\* launching the flow and without writing token.json.
C6_MissingSecretInteractive ==
    (AfterGetCredentials /\ ~StoredValid /\ ~StoredRefreshable
        /\ ~CREDENTIALS_FILE /\ ~args.non_interactive) =>
        /\ pc = "exit"
        /\ error = "MissingClientSecret"
        /\ Contains(stderr, "MissingClientSecret")
        /\ ~Contains(stderr, "ConsentRequired")
        /\ exit_code > 0
        /\ flow = "none"
        /\ ~Contains(calls, "flow")
        /\ TOKEN_FILE = stored

C6_Witness ==
    /\ pc = "exit"
    /\ error = "MissingClientSecret"
    /\ ~args.non_interactive
    /\ stored.exists
    /\ ~CREDENTIALS_FILE

C8_PlainWriteFailureFatal ==
    /\ (plain_write \in {"absent", "failed"}) =>
          /\ pc = "exit"
          /\ exit_code > 0
          /\ error \in {"PbcopyNotFound", "ClipboardWriteFailure"}
          /\ Contains(stderr, error)
          /\ ~Contains(stdout, "Copied")
    /\ Contains(stdout, "Copied") =>
          \/ rtf_write = "ok" /\ clipboard = "rtf"
          \/ plain_write = "ok" /\ clipboard = "plain"

C8_Witness ==
    /\ plain_write = "failed"
    /\ conv = "failed"
    /\ pc = "exit"
    /\ exit_code = 1

\* C9 as stated: every run that exits zero has printed the summary line.
C9_ZeroExitHasSummary ==
    (pc = "exit" /\ exit_code = 0) => Contains(stdout, "Fetched")

\* C9 amended: every run that exits zero and was not ended by argument
\* parsing (--version, --help) has printed the summary line, as the first
\* line on standard output.
C9_ZeroExitHasSummaryUnlessEarly ==
    (pc = "exit" /\ exit_code = 0 /\ args.early \notin {"version", "help"}) =>
        /\ Len(stdout) >= 1
        /\ stdout[1] = "Fetched"

C9_Witness ==
    /\ pc = "exit"
    /\ exit_code = 0
    /\ args.dry_run
    /\ args.early = "none"
    /\ stdout = <<"Fetched", "plain_output">>

\* C10: the date is validated after credential acquisition: a run that ends
\* with the invalid-date error has a credential, with the refresh done and
\* token.json overwritten for a refreshable stored credential, and the flow
\* done and token.json written when there was no usable one; a run with a
\* malformed date whose credential acquisition fails reports the credential
\* error; no run with a malformed date issues the calendar query.
C10_DateCheckedAfterCredentials ==
    /\ error = "InvalidDate" =>
          /\ MalformedDate
          /\ creds.exists
          /\ StoredValid => TOKEN_FILE = stored
          /\ StoredRefreshable =>
                /\ refresh = "ok"
                /\ Contains(calls, "write_token")
                /\ TOKEN_FILE.origin = "refreshed"
          /\ (~StoredValid /\ ~StoredRefreshable) =>
                /\ ~args.non_interactive
                /\ flow = "ok"
                /\ Contains(calls, "write_token")
                /\ TOKEN_FILE.origin = "flow"
    /\ (MalformedDate /\ Started /\ pc = "exit") =>
          /\ ~creds.exists => error \in CredentialErrors
          /\ creds.exists => error \in {"InvalidDate", "BuildError"}
    /\ MalformedDate => ~Contains(calls, "query")

C10_Witness ==
    /\ error = "InvalidDate"
    /\ StoredRefreshable
    /\ args.non_interactive
    /\ TOKEN_FILE.origin = "refreshed"
    /\ TOKEN_FILE # stored

====
